---------------------------- MODULE Spec2Model ----------------------------
(***************************************************************************)
(* A model of src/src/commit_manager.py: ConfigManager, LicenseManager,    *)
(* VersionManager and GitHookManager.                                      *)
(*                                                                         *)
(* A Python str is a sequence of one-character strings, so that str.replace,*)
(* the `in` test, re.match, re.sub, int() and str() are computed character *)
(* by character as the code computes them.  A Python dict is the sequence   *)
(* of its entries [k, v].  A file holds the characters written to it; "\n" *)
(* and "\r" are the line feed and the carriage return.                     *)
(***************************************************************************)
EXTENDS Integers, Sequences, FiniteSets, TLC

VARIABLES
    \* ---- VersionManager and the git repository it talks to
    repo_describe,  \* what `git describe --tags --abbrev=0` answers: a tag or NoTag
    repo_tags,      \* the names passed to `git tag`, in call order
    vm_ready,       \* a VersionManager has been constructed
    latest_tag,     \* VersionManager.latest_tag
    bump_arg,       \* bump_type of the last bump_version call
    bump_ret,       \* value returned by the last bump_version call
    bump_calls,     \* number of bump_version calls made on the instance
    bump_log,       \* the instance's bump_version calls, in order: argument, return
                    \* value, tag names passed to `git tag`
    \* ---- ConfigManager
    raw_config,         \* the dict toml_load returned
    name_placeholder,   \* ConfigManager.name_placeholder
    year_placeholder,   \* ConfigManager.year_placeholder
    config,             \* ConfigManager.config
    config_loaded,      \* replace_placeholders has run
    \* ---- the target directory and the LicenseManager
    disk,               \* file name -> content, Absent when there is no such file
    disk0,              \* disk when the LicenseManager was built / when run was entered
    disk_first,         \* disk after the first apply_files_and_headers
    license_manager,    \* LicenseManager.config (a section), NoManager when none is built
    now_year,           \* datetime.now().year
    os_linesep,         \* os.linesep of the platform
    lm_applies,         \* number of apply_files_and_headers calls
    \* ---- update_copyright_year applied to one text over the years
    text,               \* the text, as the last call returned it
    mark_before,        \* what the text held before its copyright mark
    mark_first,         \* the mark's leading year
    mark_after,         \* what the text held after its copyright mark
    applied_years,      \* current_year of each call so far, in order
    \* ---- GitHookManager.run
    pc,                 \* "idle", "prompt" (run waits in input()), "done" (run returned)
    last_answer,        \* the last answer read, as typed
    user_input,         \* the last answer read, lower-cased
    project_type,       \* what decide_project_type returned
    prompts,            \* answers refused in this run
    runs,               \* runs entered
    run_log,            \* the calls this run made after the prompt, in order
    setup_arg,          \* project_type of the last setup_license_manager call, <<>> before any
    tags0               \* repo_tags when run was entered

versionVars == <<repo_describe, repo_tags, vm_ready, latest_tag, bump_arg, bump_ret, bump_calls,
                 bump_log>>
configVars == <<raw_config, name_placeholder, year_placeholder, config, config_loaded>>
licenseVars == <<disk, disk0, disk_first, license_manager, now_year, os_linesep, lm_applies>>
copyrightVars == <<text, mark_before, mark_first, mark_after, applied_years>>
hookVars == <<pc, last_answer, user_input, project_type, prompts, runs, run_log, setup_arg, tags0>>
vars == <<versionVars, configVars, licenseVars, copyrightVars, hookVars>>

(***************************************************************************)
(* Bounds of the model.                                                    *)
(***************************************************************************)
MaxNum == 10        \* version components range over 0..MaxNum
MaxCalls == 2       \* bump_version calls on one VersionManager
MaxPieces == 3      \* fragments a configuration string is put together from
MaxDepth == 2       \* mappings and sequences nested around a configuration string
FirstYear == 2020   \* earliest year the model draws
YearSpan == 3       \* the years drawn are FirstYear..FirstYear + YearSpan
MaxApplies == 2     \* apply_files_and_headers calls on one LicenseManager
MaxUpdates == 3     \* update_copyright_year calls on one text
MaxPrompts == 2     \* answers refused in one run
MaxRuns == 2        \* runs of GitHookManager.run

(***************************************************************************)
(* Python str primitives.                                                  *)
(***************************************************************************)
Digits == <<"0", "1", "2", "3", "4", "5", "6", "7", "8", "9">>

IsDigit(c) == \E i \in 1..Len(Digits) : Digits[i] = c

DigitVal(c) == (CHOOSE i \in 1..Len(Digits) : Digits[i] = c) - 1

\* int(s) for a non-empty string of decimal digits (leading zeros allowed)
RECURSIVE PyInt(_)
PyInt(s) ==
    IF Len(s) = 0 THEN 0
    ELSE 10 * PyInt(SubSeq(s, 1, Len(s) - 1)) + DigitVal(s[Len(s)])

\* str(n) for a non-negative int: decimal, no leading zeros
RECURSIVE PyStr(_)
PyStr(n) ==
    IF n < 10 THEN <<Digits[n + 1]>>
    ELSE PyStr(n \div 10) \o <<Digits[(n % 10) + 1]>>

\* s[i:i+len(sub)] == sub
StartsAt(s, sub, i) ==
    /\ i + Len(sub) - 1 <= Len(s)
    /\ \A k \in 1..Len(sub) : s[i + k - 1] = sub[k]

\* `sub in s`
PyIn(sub, s) == \E i \in 1..(Len(s) + 1) : StartsAt(s, sub, i)

\* number of consecutive digits of s starting at position i (the greedy \d+)
RECURSIVE DigitRun(_, _)
DigitRun(s, i) ==
    IF i <= Len(s) /\ IsDigit(s[i]) THEN 1 + DigitRun(s, i + 1) ELSE 0

\* s.replace(old, new) for a non-empty old: leftmost occurrences, not
\* overlapping, in one pass from position i on
RECURSIVE ReplaceFrom(_, _, _, _)
ReplaceFrom(s, old, new, i) ==
    IF i > Len(s) THEN <<>>
    ELSE IF StartsAt(s, old, i)
         THEN new \o ReplaceFrom(s, old, new, i + Len(old))
         ELSE <<s[i]>> \o ReplaceFrom(s, old, new, i + 1)

PyReplace(s, old, new) == ReplaceFrom(s, old, new, 1)

(***************************************************************************)
(* VersionManager                                                          *)
(***************************************************************************)
NoTag == <<"<", "n", "o", "n", "e", ">">>   \* `git describe` raised (no tags, error)

valid_bump_types == {"major", "minor", "patch"}

\* re.match(r"v(\d+)\.(\d+)\.(\d+)", tag): anchored at the start only, greedy
\* digit runs.  The result is the three groups, or <<>> for no match.
TagMatch(tag) ==
    LET n1 == DigitRun(tag, 2)
        d1 == 2 + n1
        n2 == DigitRun(tag, d1 + 1)
        d2 == d1 + 1 + n2
        n3 == DigitRun(tag, d2 + 1)
    IN  IF /\ Len(tag) >= 1 /\ tag[1] = "v"
           /\ n1 >= 1
           /\ d1 <= Len(tag) /\ tag[d1] = "."
           /\ n2 >= 1
           /\ d2 <= Len(tag) /\ tag[d2] = "."
           /\ n3 >= 1
        THEN <<SubSeq(tag, 2, d1 - 1),
               SubSeq(tag, d1 + 1, d2 - 1),
               SubSeq(tag, d2 + 1, d2 + n3)>>
        ELSE <<>>

\* f"v{a}.{b}.{c}"
FormatVersion(a, b, c) ==
    <<"v">> \o PyStr(a) \o <<".">> \o PyStr(b) \o <<".">> \o PyStr(c)

\* NewVersion with a minor bump that forgets to reset the patch component
NewVersionMinorKeepsPatch(major, minor, patch, bump_type) ==
    CASE bump_type = "major" -> FormatVersion(major + 1, 0, 0)
      [] bump_type = "minor" -> FormatVersion(major, minor + 1, patch)
      [] bump_type = "patch" -> FormatVersion(major, minor, patch + 1)

\* the dict of candidate versions indexed by bump_type (lines 369-373)
NewVersion(major, minor, patch, bump_type) ==
    CASE bump_type = "major" -> FormatVersion(major + 1, 0, 0)
      [] bump_type = "minor" -> FormatVersion(major, minor + 1, 0)
      [] bump_type = "patch" -> FormatVersion(major, minor, patch + 1)

\* bump_version without the check of bump_type: an unknown type bumps the patch
BumpTypeUnchecked(tag, bump_type) ==
    LET m == TagMatch(tag)
    IN  IF m # <<>>
        THEN LET bt == IF bump_type \in valid_bump_types THEN bump_type ELSE "patch"
                 nv == NewVersion(PyInt(m[1]), PyInt(m[2]), PyInt(m[3]), bt)
             IN  [ret |-> nv, created |-> <<nv>>]
        ELSE [ret |-> tag, created |-> <<>>]

\* VersionManager.bump_version on an instance whose latest_tag is tag: the value
\* returned and the names it passes to `git tag`
bump_version(tag, bump_type) ==
    IF bump_type \notin valid_bump_types
    THEN [ret |-> tag, created |-> <<>>]
    ELSE LET m == TagMatch(tag)
         IN  IF m # <<>>
             THEN LET nv == NewVersion(PyInt(m[1]), PyInt(m[2]), PyInt(m[3]), bump_type)
                  IN  [ret |-> nv, created |-> <<nv>>]
             ELSE [ret |-> tag, created |-> <<>>]

\* VersionManager.__attrs_post_init__
vm_post_init(described) == IF described = NoTag THEN <<>> ELSE described

(***************************************************************************)
(* Tags the repository may hold when the VersionManager is built.          *)
(***************************************************************************)
Nums == 0..MaxNum

WellFormedTag(a, b, c) == FormatVersion(a, b, c)

\* well-formed tags and, around each, the ways a tag fails the pattern
TagVariants(a, b, c) ==
    LET A == PyStr(a)
        B == PyStr(b)
        C == PyStr(c)
    IN  { WellFormedTag(a, b, c),
          <<"V">> \o A \o <<".">> \o B \o <<".">> \o C,            \* other prefix
          A \o <<".">> \o B \o <<".">> \o C,                       \* no prefix
          <<"x", "v">> \o A \o <<".">> \o B \o <<".">> \o C,       \* v not first
          <<"v">> \o A \o <<".">> \o B,                            \* two components
          <<"v">> \o A \o <<".">> \o B \o <<".">>,                 \* empty component
          <<"v">> \o A \o <<".">> \o <<"x">> \o <<".">> \o C,      \* non-numeric
          <<"v">> \o A \o <<"-">> \o B \o <<".">> \o C,            \* other separator
          <<"v", "0">> \o A \o <<".">> \o B \o <<".">> \o C,       \* leading zero
          <<"v">> \o A \o <<".">> \o B \o <<".">> \o C \o <<".">> \o A,  \* four components
          <<"v">> \o A \o <<".">> \o B \o <<".">> \o C \o <<"-", "r", "c">> }

TagInputs ==
    {NoTag, <<>>, <<"v">>}
        \cup UNION { TagVariants(a, b, c) : a \in {0, 1, MaxNum - 1, MaxNum},
                                            b \in {0, MaxNum - 1},
                                            c \in Nums }

BumpInputs == valid_bump_types \cup {"epoch", "", "Patch"}

\* the LicenseManager part at rest, for the specifications that do not use it
LicenseIdle ==
    /\ disk = <<>>
    /\ disk0 = <<>>
    /\ disk_first = <<>>
    /\ license_manager = <<>>
    /\ now_year = FirstYear
    /\ os_linesep = <<"\n">>
    /\ lm_applies = 0

\* no run of GitHookManager, for the specifications that do not use it
HookIdle ==
    /\ pc = "idle"
    /\ last_answer = <<>>
    /\ user_input = <<>>
    /\ project_type = <<>>
    /\ prompts = 0
    /\ runs = 0
    /\ run_log = <<>>
    /\ setup_arg = <<>>
    /\ tags0 = <<>>

\* no text under update_copyright_year, for the specifications that do not use it
CopyrightIdle ==
    /\ text = <<>>
    /\ mark_before = <<>>
    /\ mark_first = FirstYear
    /\ mark_after = <<>>
    /\ applied_years = <<>>

\* no VersionManager and no tag, for the specifications that do not use them
VersionIdle ==
    /\ repo_describe = <<>>
    /\ repo_tags = <<>>
    /\ vm_ready = FALSE
    /\ latest_tag = <<>>
    /\ bump_arg = ""
    /\ bump_ret = <<>>
    /\ bump_calls = 0
    /\ bump_log = <<>>

\* the ConfigManager part at rest, for the specifications that do not use it
ConfigIdle ==
    /\ raw_config = <<>>
    /\ name_placeholder = <<>>
    /\ year_placeholder = FirstYear
    /\ config = <<>>
    /\ config_loaded = FALSE

InitVersion ==
    /\ HookIdle
    /\ ConfigIdle
    /\ LicenseIdle
    /\ CopyrightIdle
    /\ repo_describe \in TagInputs
    /\ repo_tags = <<>>
    /\ vm_ready = FALSE
    /\ latest_tag = <<>>
    /\ bump_arg = ""
    /\ bump_ret = <<>>
    /\ bump_calls = 0
    /\ bump_log = <<>>

\* VersionManager(config=...)
ConstructVersionManager ==
    /\ ~vm_ready
    /\ vm_ready' = TRUE
    /\ latest_tag' = vm_post_init(repo_describe)
    /\ UNCHANGED <<repo_describe, repo_tags, bump_arg, bump_ret, bump_calls, bump_log>>
    /\ UNCHANGED <<configVars, licenseVars, copyrightVars, hookVars>>

\* bump_version were it to keep the tag it returns as the instance's latest_tag
BumpVersionStoresTag(bt) ==
    /\ vm_ready
    /\ bump_calls < MaxCalls
    /\ LET r == bump_version(latest_tag, bt)
       IN  /\ bump_ret' = r.ret
           /\ repo_tags' = repo_tags \o r.created
           /\ bump_log' = Append(bump_log, [arg |-> bt, ret |-> r.ret, created |-> r.created])
           /\ latest_tag' = r.ret
    /\ bump_arg' = bt
    /\ bump_calls' = bump_calls + 1
    /\ UNCHANGED <<repo_describe, vm_ready>>
    /\ UNCHANGED <<configVars, licenseVars, copyrightVars, hookVars>>

\* version_manager.bump_version(bump_type=bt)
BumpVersion(bt) ==
    /\ vm_ready
    /\ bump_calls < MaxCalls
    /\ LET r == bump_version(latest_tag, bt)
       IN  /\ bump_ret' = r.ret
           /\ repo_tags' = repo_tags \o r.created
           /\ bump_log' = Append(bump_log, [arg |-> bt, ret |-> r.ret, created |-> r.created])
    /\ bump_arg' = bt
    /\ bump_calls' = bump_calls + 1
    /\ UNCHANGED <<repo_describe, vm_ready, latest_tag>>
    /\ UNCHANGED <<configVars, licenseVars, copyrightVars, hookVars>>

NextVersion ==
    \/ ConstructVersionManager
    \/ \E bt \in BumpInputs : BumpVersion(bt)

SpecVersion == InitVersion /\ [][NextVersion]_vars


(***************************************************************************)
(* Claims about VersionManager.bump_version (checked under SpecVersion).   *)
(***************************************************************************)
AllDigits(s) == Len(s) >= 1 /\ \A k \in 1..Len(s) : IsDigit(s[k])

\* the positions i < j of the two dots when tag is exactly v<digits>.<digits>.<digits>
VersionDots(tag) ==
    { d \in (1..Len(tag)) \X (1..Len(tag)) :
        /\ d[1] < d[2]
        /\ tag[1] = "v"
        /\ tag[d[1]] = "." /\ tag[d[2]] = "."
        /\ AllDigits(SubSeq(tag, 2, d[1] - 1))
        /\ AllDigits(SubSeq(tag, d[1] + 1, d[2] - 1))
        /\ AllDigits(SubSeq(tag, d[2] + 1, Len(tag))) }

\* tag has the form vMAJOR.MINOR.PATCH, the whole of it
IsVersionTag(tag) == VersionDots(tag) # {}

\* <<MAJOR, MINOR, PATCH>> of a tag of that form
Components(tag) ==
    LET d == CHOOSE x \in VersionDots(tag) : TRUE
    IN  <<PyInt(SubSeq(tag, 2, d[1] - 1)),
          PyInt(SubSeq(tag, d[1] + 1, d[2] - 1)),
          PyInt(SubSeq(tag, d[2] + 1, Len(tag)))>>

Bumped(c, bt) ==
    CASE bt = "major" -> <<c[1] + 1, 0, 0>>
      [] bt = "minor" -> <<c[1], c[2] + 1, 0>>
      [] bt = "patch" -> <<c[1], c[2], c[3] + 1>>

\* a bump_version call is the step that increments bump_calls
BumpStep == bump_calls' = bump_calls + 1

\* C4: on a latest tag of the form vMAJOR.MINOR.PATCH and a bump_type among
\* major, minor, patch, a bump_version call creates exactly one tag, the tag
\* created is the value returned, and that value is a tag of the same form whose
\* selected component is one more, lower-order components are 0 and
\* higher-order components are those of the latest tag.
C4_BumpIncrements ==
    [][(BumpStep /\ IsVersionTag(latest_tag) /\ bump_arg' \in valid_bump_types)
        => /\ repo_tags' = Append(repo_tags, bump_ret')
           /\ IsVersionTag(bump_ret')
           /\ Components(bump_ret') = Bumped(Components(latest_tag), bump_arg')]_vars

\* C4 witness: a minor bump of a tag with a non-zero patch has created one tag
C4_Witness ==
    /\ bump_calls = 1
    /\ bump_arg = "minor"
    /\ IsVersionTag(latest_tag)
    /\ Components(latest_tag)[3] > 0
    /\ repo_tags = <<bump_ret>>
    /\ Components(bump_ret)[3] = 0

\* C5: on a latest tag that is not of the form vMAJOR.MINOR.PATCH, bump_version
\* returns the latest tag unchanged and creates no tag, whatever the bump_type.
C5_MalformedTagUntouched ==
    [][(BumpStep /\ ~IsVersionTag(latest_tag))
        => (bump_ret' = latest_tag /\ repo_tags' = repo_tags)]_vars

\* C6: on a bump_type other than major, minor, patch, bump_version returns the
\* latest tag unchanged and creates no tag, whatever the latest tag.
C6_InvalidBumpTypeUntouched ==
    [][(BumpStep /\ bump_arg' \notin valid_bump_types)
        => (bump_ret' = latest_tag /\ repo_tags' = repo_tags)]_vars

\* C6 witness: "epoch" on a well-formed tag returned it and created nothing
C6_Witness ==
    /\ bump_calls = 1
    /\ bump_arg = "epoch"
    /\ IsVersionTag(latest_tag)
    /\ bump_ret = latest_tag
    /\ repo_tags = <<>>


(***************************************************************************)
(* ConfigManager                                                           *)
(*                                                                         *)
(* A configuration value is a record [t, s, items]: a str (t = "str", its  *)
(* text in s), a dict or a list (its entries in items, each [k, v] with k  *)
(* the key, "" in a list), or any other TOML scalar (t = "other").         *)
(***************************************************************************)
YEAR_PLACEHOLDER == <<"Y", "E", "A", "R", "_", "P", "L", "A", "C", "E", "H", "O", "L", "D", "E", "R">>
NAME_PLACEHOLDER == <<"N", "A", "M", "E", "_", "P", "L", "A", "C", "E", "H", "O", "L", "D", "E", "R">>

StrV(s) == [t |-> "str", s |-> s, items |-> <<>>]
DictV(items) == [t |-> "dict", s |-> <<>>, items |-> items]
ListV(items) == [t |-> "list", s |-> <<>>, items |-> items]
OtherV == [t |-> "other", s |-> <<>>, items |-> <<>>]

\* the str branch of _replace (lines 95-97)
ReplaceStr(s, year, name) ==
    PyReplace(PyReplace(s, YEAR_PLACEHOLDER, PyStr(year)), NAME_PLACEHOLDER, name)

\* _replace without its list branch
RECURSIVE ReplaceSkipsLists(_, _, _)
ReplaceSkipsLists(value, year, name) ==
    IF value.t = "str" THEN StrV(ReplaceStr(value.s, year, name))
    ELSE IF value.t = "dict"
         THEN DictV([i \in 1..Len(value.items) |->
                       [k |-> value.items[i].k,
                        v |-> ReplaceSkipsLists(value.items[i].v, year, name)]])
         ELSE value

\* ConfigManager._replace
RECURSIVE Replace_(_, _, _)
Replace_(value, year, name) ==
    IF value.t = "str" THEN StrV(ReplaceStr(value.s, year, name))
    ELSE IF value.t = "dict"
         THEN DictV([i \in 1..Len(value.items) |->
                       [k |-> value.items[i].k,
                        v |-> Replace_(value.items[i].v, year, name)]])
         ELSE IF value.t = "list"
              THEN ListV([i \in 1..Len(value.items) |->
                            [k |-> "", v |-> Replace_(value.items[i].v, year, name)]])
              ELSE value

\* ConfigManager.replace_placeholders: raw is the top-level dict, as its entries
replace_placeholders(raw, year, name) ==
    [i \in 1..Len(raw) |-> [k |-> raw[i].k, v |-> Replace_(raw[i].v, year, name)]]

(***************************************************************************)
(* The configurations, names and years ConfigManager is built with.        *)
(***************************************************************************)
Fragments ==
    { YEAR_PLACEHOLDER, NAME_PLACEHOLDER,
      <<"N", "A", "M", "E", "_", "P", "L", "A", "C", "E">>, <<"Y", "E", "A", "R", "_", "P", "L", "A", "C", "E">>, <<"H", "O", "L", "D", "E", "R">>, <<"x", " ">> }

RECURSIVE StringsOf(_)
StringsOf(n) ==
    IF n = 0 THEN {<<>>}
    ELSE LET shorter == StringsOf(n - 1)
         IN  shorter \cup { f \o r : f \in Fragments, r \in shorter }

\* a string wrapped in up to d mappings and sequences
RECURSIVE ValuesOf(_)
ValuesOf(d) ==
    IF d = 0 THEN { StrV(s) : s \in StringsOf(MaxPieces) }
    ELSE LET inner == ValuesOf(d - 1)
         IN  inner
               \cup { DictV(<<[k |-> "key", v |-> x]>>) : x \in inner }
               \cup { ListV(<<[k |-> "", v |-> OtherV], [k |-> "", v |-> x]>>) : x \in inner }

RawConfigs == { <<[k |-> "section", v |-> x]>> : x \in ValuesOf(MaxDepth) }

JohnDoe == <<"J", "o", "h", "n", " ", "D", "o", "e">>     \* the default of name_placeholder (line 50)

NameInputs == { JohnDoe, <<"A", "l">>, <<>>, <<"H", "O", "L", "D", "E", "R">>, YEAR_PLACEHOLDER, <<"N">> }

YearInputs == { FirstYear, FirstYear + YearSpan }

InitConfig ==
    /\ HookIdle
    /\ raw_config \in RawConfigs
    /\ name_placeholder \in NameInputs
    /\ year_placeholder \in YearInputs
    /\ config = <<>>
    /\ config_loaded = FALSE
    /\ LicenseIdle
    /\ CopyrightIdle
    /\ VersionIdle

\* ConfigManager.__attrs_post_init__, the file being there
LoadConfig ==
    /\ ~config_loaded
    /\ config' = replace_placeholders(raw_config, year_placeholder, name_placeholder)
    /\ config_loaded' = TRUE
    /\ UNCHANGED <<raw_config, name_placeholder, year_placeholder>>
    /\ UNCHANGED <<versionVars, licenseVars, copyrightVars, hookVars>>

NextConfig == LoadConfig

SpecConfig == InitConfig /\ [][NextConfig]_vars

(***************************************************************************)
(* Claims about ConfigManager.replace_placeholders (under SpecConfig).     *)
(***************************************************************************)
HasToken(s) == PyIn(YEAR_PLACEHOLDER, s) \/ PyIn(NAME_PLACEHOLDER, s)

\* some str anywhere inside the value holds a placeholder token
RECURSIVE ValueHasToken(_)
ValueHasToken(value) ==
    IF value.t = "str" THEN HasToken(value.s)
    ELSE \E i \in 1..Len(value.items) : ValueHasToken(value.items[i].v)

ConfigHasToken(c) == \E i \in 1..Len(c) : ValueHasToken(c[i].v)

\* C7 as stated: after replace_placeholders no str of the configuration, at any
\* depth, holds YEAR_PLACEHOLDER or NAME_PLACEHOLDER, whatever the raw
\* configuration, the year and the name.
C7_NoTokenRemains == config_loaded => ~ConfigHasToken(config)

\* the name can neither carry a token into a string nor complete one with the
\* text around it: it is not empty, holds no token, is no part of a token, and
\* none of its ends is the other end of a token
NameApartFrom(name, token) ==
    /\ ~PyIn(token, name)
    /\ ~PyIn(name, token)
    /\ \A n \in 1..(IF Len(name) < Len(token) THEN Len(name) ELSE Len(token)) :
          /\ SubSeq(name, 1, n) # SubSeq(token, Len(token) - n + 1, Len(token))
          /\ SubSeq(name, Len(name) - n + 1, Len(name)) # SubSeq(token, 1, n)

SafeName(name) ==
    /\ name # <<>>
    /\ NameApartFrom(name, YEAR_PLACEHOLDER)
    /\ NameApartFrom(name, NAME_PLACEHOLDER)

\* C7 amended: for every raw configuration and year, and every name that is not
\* empty, holds no placeholder token, is no part of one and shares no end with
\* one, no str at any depth holds a placeholder token after replace_placeholders.
C7_NoTokenRemainsSafeName ==
    (config_loaded /\ SafeName(name_placeholder)) => ~ConfigHasToken(config)

\* C7 witness: a list inside a mapping held both tokens, the name is the
\* default one, and the loaded configuration holds neither
C7_Witness ==
    /\ config_loaded
    /\ name_placeholder = JohnDoe
    /\ raw_config[1].v.t = "dict"
    /\ raw_config[1].v.items[1].v.t = "list"
    /\ LET leaf == raw_config[1].v.items[1].v.items[2].v
       IN  /\ leaf.t = "str"
           /\ PyIn(YEAR_PLACEHOLDER, leaf.s)
           /\ PyIn(NAME_PLACEHOLDER, leaf.s)
    /\ ~ConfigHasToken(config)


(***************************************************************************)
(* Files.  Path.read_text and Path.write_text open the file in text mode   *)
(* with the default newline=None: reading turns "\r\n" and a lone "\r"     *)
(* into "\n", writing turns "\n" into os.linesep.                          *)
(***************************************************************************)
LF == "\n"
CR == "\r"

Absent == <<"<no such file>">>

RECURSIVE ReadFrom(_, _)
ReadFrom(b, i) ==
    IF i > Len(b) THEN <<>>
    ELSE IF b[i] = CR
         THEN <<LF>> \o ReadFrom(b, IF i < Len(b) /\ b[i + 1] = LF THEN i + 2 ELSE i + 1)
         ELSE <<b[i]>> \o ReadFrom(b, i + 1)

\* Path.read_text() of a file whose content is b
read_text(b) == ReadFrom(b, 1)

\* the content Path.write_text(data) leaves in the file
write_text(data, linesep) ==
    IF linesep = <<LF>> THEN data ELSE PyReplace(data, <<LF>>, linesep)

LICENSE_MD == <<"L", "I", "C", "E", "N", "S", "E", ".", "m", "d">>
INTENT_MD == <<"I", "N", "T", "E", "N", "T", ".", "m", "d">>
A_PY == <<"a", ".", "p", "y">>
NOTES_TXT == <<"n", "o", "t", "e", "s", ".", "t", "x", "t">>

FileNames == {LICENSE_MD, INTENT_MD, A_PY, NOTES_TXT}

exists(d, path) == d[path] # Absent

\* target_dir.glob("*.py"): the files there whose name ends in ".py"
GlobPy(d) ==
    { f \in DOMAIN d :
        /\ exists(d, f)
        /\ Len(f) >= 3
        /\ SubSeq(f, Len(f) - 2, Len(f)) = <<".", "p", "y">> }

(***************************************************************************)
(* LicenseManager                                                          *)
(***************************************************************************)
\* key in dict
HasKey(items, key) == \E i \in 1..Len(items) : items[i].k = key

\* dict.get(key, "") of a dict of strs
GetStr(items, key) ==
    IF HasKey(items, key)
    THEN items[CHOOSE i \in 1..Len(items) : items[i].k = key].v.s
    ELSE <<>>

COPYRIGHT == "©"

FourDigits(s, i) == i + 3 <= Len(s) /\ \A k \in i..(i + 3) : IsDigit(s[k])

\* the end of the match of r"© (\d{4})(-\d{4})?" starting at i, 0 for no match
MarkEnd(s, i) ==
    IF /\ s[i] = COPYRIGHT
       /\ i + 1 <= Len(s) /\ s[i + 1] = " "
       /\ FourDigits(s, i + 2)
    THEN IF i + 6 <= Len(s) /\ s[i + 6] = "-" /\ FourDigits(s, i + 7)
         THEN i + 10
         ELSE i + 5
    ELSE 0

\* the same for the pattern cut to r"© (\d{4})"
MarkEndNoRange(s, i) ==
    IF /\ s[i] = COPYRIGHT
       /\ i + 1 <= Len(s) /\ s[i + 1] = " "
       /\ FourDigits(s, i + 2)
    THEN i + 5
    ELSE 0

\* re.sub with the pattern cut to r"© (\d{4})"
RECURSIVE SubNoRangeFrom(_, _, _)
SubNoRangeFrom(s, current_year, i) ==
    IF i > Len(s) THEN <<>>
    ELSE LET e == MarkEndNoRange(s, i)
         IN  IF e = 0 THEN <<s[i]>> \o SubNoRangeFrom(s, current_year, i + 1)
             ELSE LET g1 == SubSeq(s, i + 2, i + 5)
                      repl == IF PyInt(g1) < current_year
                              THEN <<COPYRIGHT, " ">> \o g1 \o <<"-">> \o PyStr(current_year)
                              ELSE SubSeq(s, i, e)
                  IN  repl \o SubNoRangeFrom(s, current_year, e + 1)

\* re.sub over the text from position i on (lines 230-236)
RECURSIVE SubFrom(_, _, _)
SubFrom(s, current_year, i) ==
    IF i > Len(s) THEN <<>>
    ELSE LET e == MarkEnd(s, i)
         IN  IF e = 0 THEN <<s[i]>> \o SubFrom(s, current_year, i + 1)
             ELSE LET g1 == SubSeq(s, i + 2, i + 5)
                      repl == IF PyInt(g1) < current_year
                              THEN <<COPYRIGHT, " ">> \o g1 \o <<"-">> \o PyStr(current_year)
                              ELSE SubSeq(s, i, e)
                  IN  repl \o SubFrom(s, current_year, e + 1)

\* update_copyright_year with the pattern cut to r"© (\d{4})"
UpdateIgnoringRange(s, current_year) == SubNoRangeFrom(s, current_year, 1)

\* LicenseManager.update_copyright_year
update_copyright_year(s, current_year) == SubFrom(s, current_year, 1)

\* LicenseManager.modify_file with the modifier of prepend_to_file
prepend_to_file(b, content, linesep) ==
    write_text(content \o <<LF>> \o read_text(b), linesep)

\* the create-or-update-year step of LICENSE.md and INTENT.md (lines 267-274, 279-286)
CreateOrUpdate(b, content, current_year, linesep) ==
    IF b # Absent
    THEN write_text(update_copyright_year(read_text(b), current_year), linesep)
    ELSE write_text(content, linesep)

\* LicenseManager.apply_files_and_headers: the directory it leaves
apply_files_and_headers(cfg, d, current_year, linesep) ==
    LET script_header == GetStr(cfg, "script")
        py_files == GlobPy(d)
    IN  [f \in DOMAIN d |->
            IF f \in py_files
            THEN IF ~PyIn(script_header, read_text(d[f]))
                 THEN prepend_to_file(d[f], script_header, linesep)
                 ELSE d[f]
            ELSE IF f = LICENSE_MD
                 THEN CreateOrUpdate(d[f], GetStr(cfg, "license"), current_year, linesep)
            ELSE IF f = INTENT_MD /\ HasKey(cfg, "intent")
                 THEN CreateOrUpdate(d[f], GetStr(cfg, "intent"), current_year, linesep)
            ELSE d[f]]

(***************************************************************************)
(* The sections, directories and years a LicenseManager meets.             *)
(***************************************************************************)
Years == FirstYear..(FirstYear + YearSpan)

ScriptTexts == { <<"#", "h">>, <<"#", CR>>, <<"#", "h">> \o <<LF>> \o <<"#", "i">>, <<>> }
LicenseText == <<COPYRIGHT, " ">> \o PyStr(FirstYear + 1) \o <<" ", "L", "i", "c">>
IntentText == <<"I", "n", "t", " ">> \o <<COPYRIGHT, " ">> \o PyStr(FirstYear) \o <<"-">> \o PyStr(FirstYear + 1)

Entry(key, s) == <<[k |-> key, v |-> StrV(s)]>>

Sections ==
    { sc \o li \o it :
        sc \in {<<>>} \cup { Entry("script", t) : t \in ScriptTexts },
        li \in {<<>>, Entry("license", LicenseText)},
        it \in {<<>>, Entry("intent", IntentText)} }

PyContents == { <<"x">>, <<"#", "h">> \o <<LF, "x">>, <<"x", LF, "y", LF>>, <<>> }

Disks ==
    { [f \in FileNames |->
          CASE f = LICENSE_MD -> l
            [] f = INTENT_MD -> i
            [] f = A_PY -> p
            [] f = NOTES_TXT -> <<"n">>] :
        l \in {Absent, <<COPYRIGHT, " ">> \o PyStr(FirstYear) \o <<" ", "O", "l", "d">>},
        i \in {Absent, IntentText},
        p \in PyContents }

InitLicense ==
    /\ HookIdle
    /\ ConfigIdle
    /\ CopyrightIdle
    /\ VersionIdle
    /\ disk \in Disks
    /\ disk0 = disk
    /\ disk_first = disk
    /\ license_manager \in Sections
    /\ now_year \in {FirstYear + 1, FirstYear + YearSpan}
    /\ os_linesep \in {<<LF>>, <<CR, LF>>}
    /\ lm_applies = 0

\* license_manager.apply_files_and_headers(target_dir)
ApplyFilesAndHeaders ==
    /\ lm_applies < MaxApplies
    /\ disk' = apply_files_and_headers(license_manager, disk, now_year, os_linesep)
    /\ disk_first' = IF lm_applies = 0 THEN disk' ELSE disk_first
    /\ lm_applies' = lm_applies + 1
    /\ UNCHANGED <<disk0, license_manager, now_year, os_linesep>>
    /\ UNCHANGED <<versionVars, configVars, copyrightVars, hookVars>>

NextLicense == ApplyFilesAndHeaders

SpecLicense == InitLicense /\ [][NextLicense]_vars

(***************************************************************************)
(* Claims about LicenseManager.apply_files_and_headers (under SpecLicense).*)
(***************************************************************************)
\* C8: header application is idempotent: after a second apply_files_and_headers
\* every source file holds what it held after the first, whatever the file
\* held and whatever the script text is.
C8_HeaderIdempotent ==
    lm_applies >= 2 => \A f \in GlobPy(disk0) : disk[f] = disk_first[f]

\* C10: a key absent from the section disables its artifact: without `script`
\* no source file is modified, without `license` LICENSE.md is neither created
\* nor modified, without `intent` INTENT.md is neither created nor modified.
C10_AbsentKeyDisables ==
    lm_applies >= 1 =>
        /\ ~HasKey(license_manager, "script") => \A f \in GlobPy(disk0) : disk[f] = disk0[f]
        /\ ~HasKey(license_manager, "license") => disk[LICENSE_MD] = disk0[LICENSE_MD]
        /\ ~HasKey(license_manager, "intent") => disk[INTENT_MD] = disk0[INTENT_MD]


(***************************************************************************)
(* update_copyright_year over the years: a text with one copyright mark,   *)
(* "© Y" or "© Y-Z", is handed to the function again and again while the   *)
(* current year stays or advances.  Years have four digits.                *)
(***************************************************************************)
MarkOf(y, z) ==
    <<COPYRIGHT, " ">> \o PyStr(y) \o (IF z = 0 THEN <<>> ELSE <<"-">> \o PyStr(z))

BeforeMark == { <<>>, <<"(", "c", ")", " ">>, <<"x", LF>> }
AfterMark == { <<>>, <<" ", "A", "n", "n">>, <<"7">>, <<"-", "2", "0">>, <<LF>> }

InitCopyright ==
    /\ HookIdle
    /\ ConfigIdle
    /\ LicenseIdle
    /\ VersionIdle
    /\ mark_before \in BeforeMark
    /\ mark_first \in Years
    /\ mark_after \in AfterMark
    /\ \E z \in {0} \cup Years : text = mark_before \o MarkOf(mark_first, z) \o mark_after
    /\ applied_years = <<>>

\* text = LicenseManager.update_copyright_year(text, current_year), the year
\* being that of the previous call or a later one
UpdateCopyrightYear(current_year) ==
    /\ Len(applied_years) < MaxUpdates
    /\ applied_years # <<>> => current_year >= applied_years[Len(applied_years)]
    /\ text' = update_copyright_year(text, current_year)
    /\ applied_years' = Append(applied_years, current_year)
    /\ UNCHANGED <<mark_before, mark_first, mark_after>>
    /\ UNCHANGED <<versionVars, configVars, licenseVars, hookVars>>

NextCopyright == \E y \in Years : UpdateCopyrightYear(y)

SpecCopyright == InitCopyright /\ [][NextCopyright]_vars

\* C9: with Y the mark's leading year and C the current year of a call, the call
\* turns the mark into "© Y-C" when Y < C and leaves the text as it was
\* otherwise; hence a second call in the same year changes nothing, and a call
\* in a later year C' (Y < C') leaves "© Y-C'", never "© Y-C-C'".
C9_CopyrightYearUpdate ==
    [][(applied_years' # applied_years)
        => LET C == applied_years'[Len(applied_years')]
           IN  /\ text' = IF mark_first < C
                          THEN mark_before \o MarkOf(mark_first, C) \o mark_after
                          ELSE text
               /\ (applied_years # <<>> /\ applied_years[Len(applied_years)] = C)
                     => text' = text]_vars

\* C9 witness: "© Y" was updated in a year C > Y, again in C, then in a later
\* year, and now ends in that later year
C9_Witness ==
    /\ Len(applied_years) = 3
    /\ mark_first < applied_years[1]
    /\ applied_years[1] = applied_years[2]
    /\ applied_years[2] < applied_years[3]
    /\ text = mark_before \o MarkOf(mark_first, applied_years[3]) \o mark_after


(***************************************************************************)
(* GitHookManager                                                          *)
(***************************************************************************)
Uppers == <<"A", "B", "C", "D", "E", "F", "G", "H", "I", "J", "K", "L", "M", "N", "O", "P", "Q", "R", "S", "T", "U", "V", "W", "X", "Y", "Z">>
Lowers == <<"a", "b", "c", "d", "e", "f", "g", "h", "i", "j", "k", "l", "m", "n", "o", "p", "q", "r", "s", "t", "u", "v", "w", "x", "y", "z">>

\* str.lower() left out: the answer is used as typed
PyLowerOmitted(s) == s

\* str.lower()
PyLower(s) ==
    [i \in 1..Len(s) |->
        IF \E j \in 1..Len(Uppers) : Uppers[j] = s[i]
        THEN Lowers[CHOOSE j \in 1..Len(Uppers) : Uppers[j] = s[i]]
        ELSE s[i]]

PERSONAL == <<"p", "e", "r", "s", "o", "n", "a", "l">>
WORK == <<"w", "o", "r", "k">>

\* project_types (line 448), as its entries
project_types == <<[k |-> <<"p">>, v |-> PERSONAL], [k |-> <<"w">>, v |-> WORK]>>

\* check_existing_files answering that something is missing whatever is there
CheckAlwaysMissing(d, pt) == TRUE

\* GitHookManager.check_existing_files on the directory d

check_existing_files(d, pt) ==
    \/ (pt = <<"w">> /\ ~(exists(d, LICENSE_MD) /\ exists(d, INTENT_MD)))
    \/ (pt = <<"p">> /\ ~exists(d, LICENSE_MD))

\* ConfigManager.get_section: the section's entries, {} when there is none
get_section(c, section) ==
    IF HasKey(c, section)
    THEN c[CHOOSE i \in 1..Len(c) : c[i].k = section].v.items
    ELSE <<>>

\* GitHookManager.setup_license_manager: the LicenseManager's config
setup_license_manager(c, pt) ==
    get_section(c, IF pt = <<"p">> THEN "personal" ELSE "work")

NoManager == <<[k |-> "<None>", v |-> OtherV]>>

(***************************************************************************)
(* The configurations and directories a run meets.                         *)
(***************************************************************************)
WorkLicenseText == <<COPYRIGHT, " ">> \o PyStr(FirstYear + 1) \o <<" ", "G", "o", "v">>

SectionEntry(name, items) == <<[k |-> name, v |-> DictV(items)]>>

HookConfigs ==
    { p \o w :
        p \in { SectionEntry("personal", Entry("license", LicenseText)),
                SectionEntry("personal", Entry("script", <<"#", "h">>) \o Entry("license", LicenseText)) },
        w \in { SectionEntry("work", Entry("license", WorkLicenseText)),
                SectionEntry("work", Entry("license", WorkLicenseText)
                                        \o Entry("intent", IntentText)) } }

AnswerInputs == { <<"p">>, <<"w">>, <<"P">>, <<"W">>, <<"x">>, <<>>, PERSONAL, <<"p", "w">> }

Init ==
    /\ CopyrightIdle
    /\ raw_config = <<>>
    /\ name_placeholder = JohnDoe
    /\ year_placeholder = FirstYear
    /\ config \in HookConfigs
    /\ config_loaded = TRUE
    /\ repo_describe \in {NoTag, FormatVersion(1, 0, 0)}
    /\ repo_tags = <<>>
    /\ vm_ready = FALSE
    /\ latest_tag = <<>>
    /\ bump_arg = ""
    /\ bump_ret = <<>>
    /\ bump_calls = 0
    /\ bump_log = <<>>
    /\ disk \in { d \in Disks : d[A_PY] = <<"x">> }
    /\ disk0 = disk
    /\ disk_first = disk
    /\ license_manager = NoManager
    /\ now_year = FirstYear + YearSpan
    /\ os_linesep \in {<<LF>>, <<CR, LF>>}
    /\ lm_applies = 0
    /\ pc = "idle"
    /\ last_answer = <<>>
    /\ user_input = <<>>
    /\ project_type = <<>>
    /\ prompts = 0
    /\ runs = 0
    /\ run_log = <<>>
    /\ setup_arg = <<>>
    /\ tags0 = <<>>

\* git_hook_manager.run() is called and waits in input()
RunStart ==
    /\ pc \in {"idle", "done"}
    /\ runs < MaxRuns
    /\ pc' = "prompt"
    /\ runs' = runs + 1
    /\ last_answer' = <<>>
    /\ user_input' = <<>>
    /\ project_type' = <<>>
    /\ prompts' = 0
    /\ run_log' = <<>>
    /\ disk0' = disk
    /\ tags0' = repo_tags
    /\ UNCHANGED <<disk, disk_first, license_manager, now_year, os_linesep, lm_applies, setup_arg>>
    /\ UNCHANGED <<versionVars, configVars, copyrightVars>>

\* lines 426-432 of run, once decide_project_type has returned pt
RunAfterPrompt(pt) ==
    IF check_existing_files(disk, pt)
    THEN LET lm == setup_license_manager(config, pt)
             tag == vm_post_init(repo_describe)
             r == bump_version(tag, "patch")
         IN  /\ license_manager' = lm
             /\ setup_arg' = pt
             /\ disk' = apply_files_and_headers(lm, disk, now_year, os_linesep)
             /\ disk_first' = IF lm_applies = 0 THEN disk' ELSE disk_first
             /\ lm_applies' = lm_applies + 1
             /\ vm_ready' = TRUE
             /\ latest_tag' = tag
             /\ bump_arg' = "patch"
             /\ bump_ret' = r.ret
             /\ bump_calls' = 1
             /\ bump_log' = <<[arg |-> "patch", ret |-> r.ret, created |-> r.created]>>
             /\ repo_tags' = repo_tags \o r.created
             \* the new tag sits on the commit of the old one: git describe may
             \* name either from now on
             /\ repo_describe' \in {repo_describe} \cup {r.created[i] : i \in 1..Len(r.created)}
             /\ run_log' = <<"setup_license_manager", "apply_files_and_headers",
                             "VersionManager", "bump_version">>
    ELSE /\ run_log' = <<>>
         /\ UNCHANGED <<disk, disk_first, license_manager, setup_arg, lm_applies, versionVars>>

\* one turn of the loop of decide_project_type: an answer is read; a refused
\* answer leaves run waiting in input(), an accepted one lets run go on to its end
Prompt(answer) ==
    /\ pc = "prompt"
    /\ last_answer' = answer
    /\ user_input' = PyLower(answer)
    /\ IF HasKey(project_types, user_input')
       THEN LET pt == project_types[CHOOSE i \in 1..Len(project_types) :
                                        project_types[i].k = user_input'].v
            IN  /\ project_type' = pt
                /\ RunAfterPrompt(pt)
                /\ pc' = "done"
                /\ UNCHANGED prompts
       ELSE /\ prompts < MaxPrompts
            /\ prompts' = prompts + 1
            /\ UNCHANGED <<pc, project_type, run_log, disk, disk_first, license_manager,
                           setup_arg, lm_applies, versionVars>>
    /\ UNCHANGED <<disk0, now_year, os_linesep, runs, tags0>>
    /\ UNCHANGED <<configVars, copyrightVars>>

\* git_hook_manager.setup_license_manager(project_type) called on its own, with
\* the value decide_project_type returned
SetupLicenseManager ==
    /\ pc = "done"
    /\ license_manager' = setup_license_manager(config, project_type)
    /\ setup_arg' = project_type
    /\ UNCHANGED <<pc, last_answer, user_input, project_type, prompts, runs, run_log, tags0>>
    /\ UNCHANGED <<disk, disk0, disk_first, now_year, os_linesep, lm_applies>>
    /\ UNCHANGED <<versionVars, configVars, copyrightVars>>

Next ==
    \/ RunStart
    \/ SetupLicenseManager
    \/ \E answer \in AnswerInputs : Prompt(answer)

Spec == Init /\ [][Next]_vars

(***************************************************************************)
(* Claims about GitHookManager.run (under Spec).                           *)
(***************************************************************************)
\* C1: a run answered "p" on a directory without LICENSE.md ends with a
\* LICENSE.md whose text is the `license` text of the "personal" section.
C1_PersonalRunCreatesLicense ==
    (pc = "done" /\ user_input = <<"p">> /\ ~exists(disk0, LICENSE_MD))
        => /\ exists(disk, LICENSE_MD)
           /\ read_text(disk[LICENSE_MD]) = GetStr(get_section(config, "personal"), "license")

\* C2: a run answered "w" on a directory that lacks LICENSE.md or INTENT.md
\* calls apply_files_and_headers, and ends with LICENSE.md there and, when the
\* work section has an `intent` key, INTENT.md there.
C2_WorkRunProcesses ==
    (pc = "done" /\ user_input = <<"w">>
        /\ (~exists(disk0, LICENSE_MD) \/ ~exists(disk0, INTENT_MD)))
        => /\ \E i \in 1..Len(run_log) : run_log[i] = "apply_files_and_headers"
           /\ exists(disk, LICENSE_MD)
           /\ HasKey(get_section(config, "work"), "intent") => exists(disk, INTENT_MD)

\* a required artifact is missing from d for the answer given: LICENSE.md for
\* "p"; LICENSE.md or INTENT.md for "w"
ArtifactMissing(d, answer) ==
    \/ (answer = <<"p">> /\ ~exists(d, LICENSE_MD))
    \/ (answer = <<"w">> /\ (~exists(d, LICENSE_MD) \/ ~exists(d, INTENT_MD)))

\* C3: in a run, bump_version is called only after apply_files_and_headers of
\* the same run has returned; and a run that found no required artifact missing
\* has written no file, created no tag and attempted no bump.
C3_BumpOnlyAfterProcessing ==
    /\ \A i \in 1..Len(run_log) :
          run_log[i] = "bump_version"
              => \E j \in 1..(i - 1) : run_log[j] = "apply_files_and_headers"
    /\ (pc = "done" /\ ~ArtifactMissing(disk0, user_input))
          => (disk = disk0 /\ repo_tags = tags0 /\ run_log = <<>>)

\* C3 witness: a run answered "p" with LICENSE.md there has returned
C3_Witness ==
    /\ pc = "done"
    /\ user_input = <<"p">>
    /\ exists(disk0, LICENSE_MD)
    /\ disk = disk0
    /\ repo_tags = tags0


\* a step in which decide_project_type reads an answer
AnswerRead == pc = "prompt" /\ (pc' = "done" \/ prompts' = prompts + 1)

\* the answers that are "p" or "w" in either case, and what each classifies as
Classification(answer) ==
    CASE answer \in {<<"p">>, <<"P">>} -> PERSONAL
      [] answer \in {<<"w">>, <<"W">>} -> WORK
      [] OTHER -> <<>>

\* C11: decide_project_type returns exactly on an answer that is "p" or "w" in
\* either case, and then returns that answer's classification (personal for p,
\* work for w), however many answers were refused before; any other answer
\* leaves it prompting, with the directory, the tags, the LicenseManager and
\* the classification as they were.
C11_PromptUntilValid ==
    [][AnswerRead =>
        IF Classification(last_answer') # <<>>
        THEN pc' = "done" /\ project_type' = Classification(last_answer')
        ELSE /\ pc' = "prompt"
             /\ UNCHANGED <<project_type, run_log, runs, disk, disk0, disk_first,
                            license_manager, setup_arg, lm_applies, tags0, versionVars,
                            configVars>>]_vars

\* C11 witness: after MaxPrompts refused answers an upper-case "W" was read and
\* decide_project_type returned "work"
C11_Witness ==
    /\ pc = "done"
    /\ prompts = MaxPrompts
    /\ last_answer = <<"W">>
    /\ project_type = WORK


\* C12: the LicenseManager that setup_license_manager builds from a
\* classification holds the configuration section of that classification: the
\* "personal" section for "personal", the "work" section for "work".
C12_SectionOfClassification ==
    /\ setup_arg = PERSONAL => license_manager = get_section(config, "personal")
    /\ setup_arg = WORK => license_manager = get_section(config, "work")


\* C13: latest_tag is what construction set it to (the described tag, or "" on
\* failure) whatever bump_version calls followed, successful ones included; so
\* calls on one instance with the same bump_type all return the same value and
\* pass the same names to `git tag`, and on a version tag every call with a
\* valid bump_type requests the tag it returns.
C13_LatestTagConstant ==
    vm_ready =>
        /\ latest_tag = vm_post_init(repo_describe)
        /\ \A i, j \in 1..Len(bump_log) :
              bump_log[i].arg = bump_log[j].arg
                  => /\ bump_log[i].ret = bump_log[j].ret
                     /\ bump_log[i].created = bump_log[j].created
        /\ \A i \in 1..Len(bump_log) :
              (IsVersionTag(latest_tag) /\ bump_log[i].arg \in valid_bump_types)
                  => bump_log[i].created = <<bump_log[i].ret>>

\* C13 witness: two successful "minor" bumps on one instance built on a version
\* tag: both returned the same new tag, which was requested twice, and
\* latest_tag is still the described tag
C13_Witness ==
    /\ vm_ready
    /\ IsVersionTag(latest_tag)
    /\ Len(bump_log) = 2
    /\ bump_log[1].arg = "minor" /\ bump_log[2].arg = "minor"
    /\ bump_log[1].ret = bump_log[2].ret
    /\ bump_log[1].ret # latest_tag
    /\ repo_tags = <<bump_log[1].ret, bump_log[1].ret>>
    /\ latest_tag = repo_describe

=============================================================================
